---- MODULE Spec2Model ----
(***************************************************************************)
(* Model of healthcare_dashbaord/app.py: the CSV loader, the summary       *)
(* statistics, the layout construction and the five Dash callbacks that    *)
(* filter the shared table df and build one figure each.                   *)
(*                                                                         *)
(* Text that the program parses or formats (CSV cells, the YearMonth       *)
(* labels, the summary line) is a sequence of ASCII codes, so that parsing *)
(* and formatting are computed and not assumed.  A float is a record       *)
(* [nan, v]; a mean is the exact rational [nan, num, den].                 *)
(***************************************************************************)
EXTENDS Integers, Sequences, FiniteSets, TLC

\* ------------------------------------------------------------------ bounds

\* Longest input file, in data rows.
MaxRows == 3

\* ------------------------------------------------------------- text cells

\* "100", "300", "bad", "" as they stand in the Billing Amount column.
Txt100 == <<49, 48, 48>>
Txt300 == <<51, 48, 48>>
TxtBad == <<98, 97, 100>>
TxtEmpty == <<>>

\* "2023-12-01", "2023-04-15", "2024-01-20", "unknown" in Date of Admission.
Txt20231201 == <<50, 48, 50, 51, 45, 49, 50, 45, 48, 49>>
Txt20230415 == <<50, 48, 50, 51, 45, 48, 52, 45, 49, 53>>
Txt20240120 == <<50, 48, 50, 52, 45, 48, 49, 45, 50, 48>>
TxtUnknown == <<117, 110, 107, 110, 111, 119, 110>>

IsDigit(c) == c \in 48..57

AllDigits(s) == \A i \in 1..Len(s) : IsDigit(s[i])

RECURSIVE DecimalValue(_)
DecimalValue(s) ==
    IF s = <<>> THEN 0
    ELSE 10 * DecimalValue(SubSeq(s, 1, Len(s) - 1)) + (s[Len(s)] - 48)

RECURSIVE DecimalDigits(_)
\* str(n) for n >= 0
DecimalDigits(n) ==
    IF n < 10 THEN <<48 + n>> ELSE DecimalDigits(n \div 10) \o <<48 + (n % 10)>>

\* n as exactly two digits (n in 0..99)
TwoDigits(n) == <<48 + (n \div 10), 48 + (n % 10)>>

\* --------------------------------------------------------- pandas values

NaN == [nan |-> TRUE, v |-> 0]
Num(n) == [nan |-> FALSE, v |-> n]

NaT == [nat |-> TRUE, year |-> 0, month |-> 0, day |-> 0]
PeriodNaT == [nat |-> TRUE, year |-> 0, month |-> 0]

\* Python's None, as the value of a cleared dropdown.
None == "__None__"

\* bool(x) of a dropdown value: None and the empty string are falsy.
Truthy(x) == x # None /\ x # ""

\* Variant: a missing amount compares as zero.
Le_nan_as_zero(x, ceiling) == (IF x.nan THEN 0 ELSE x.v) <= ceiling

\* Series <= scalar, element-wise: a comparison with NaN is False.
Le(x, ceiling) == ~x.nan /\ x.v <= ceiling

\* ------------------------------------------------------------- load_data

\* pd.to_numeric(cell, errors='coerce'); read_csv has already turned an empty
\* cell into NaN, and text that is not a number is coerced to NaN.
to_numeric(cell) ==
    IF cell # <<>> /\ AllDigits(cell) THEN Num(DecimalValue(cell)) ELSE NaN

\* The cell is a date written YYYY-MM-DD.
IsIsoDate(cell) ==
    /\ Len(cell) = 10
    /\ cell[5] = 45 /\ cell[8] = 45
    /\ AllDigits(SubSeq(cell, 1, 4))
    /\ AllDigits(SubSeq(cell, 6, 7))
    /\ AllDigits(SubSeq(cell, 9, 10))
    /\ DecimalValue(SubSeq(cell, 6, 7)) \in 1..12
    /\ DecimalValue(SubSeq(cell, 9, 10)) \in 1..31

\* Variant: errors='coerce', no cell raises.
DateRaises_coerce(cell) == FALSE

\* pd.to_datetime raises (errors='raise' is the default) on a cell that is
\* present and is not a date; a missing cell is passed through as NaT.
DateRaises(cell) == cell # <<>> /\ ~IsIsoDate(cell)

\* The timestamp of a cell; NaT for a missing cell (a cell that is present
\* and is not a date yields no value: DateRaises).
to_datetime(cell) ==
    IF ~IsIsoDate(cell) THEN NaT
    ELSE [nat |-> FALSE,
          year |-> DecimalValue(SubSeq(cell, 1, 4)),
          month |-> DecimalValue(SubSeq(cell, 6, 7)),
          day |-> DecimalValue(SubSeq(cell, 9, 10))]

\* .dt.to_period('M')
to_period(ts) ==
    IF ts.nat THEN PeriodNaT
    ELSE [nat |-> FALSE, year |-> ts.year, month |-> ts.month]

LoadRow(raw) ==
    LET ts == to_datetime(raw.DateOfAdmission)
    IN  [Age |-> raw.Age,
         Gender |-> raw.Gender,
         MedicalCondition |-> raw.MedicalCondition,
         InsuranceProvider |-> raw.InsuranceProvider,
         BillingAmount |-> to_numeric(raw.BillingAmount),
         DateOfAdmission |-> ts,
         YearMonth |-> to_period(ts)]

\* The outcome of load_data() on the file: the exception it raises, or the table.
load_data(f) ==
    IF ~f.exists THEN [error |-> "FileNotFoundError", df |-> <<>>]
    ELSE IF ~f.parsable THEN [error |-> "ParserError", df |-> <<>>]
    ELSE IF \E i \in 1..Len(f.rows) : DateRaises(f.rows[i].DateOfAdmission)
         THEN [error |-> "ValueError: time data", df |-> <<>>]
    ELSE [error |-> "none", df |-> [i \in 1..Len(f.rows) |-> LoadRow(f.rows[i])]]

\* ----------------------------------------------------- summary statistics

RECURSIVE SumBilling(_)
\* Series.sum(skipna=True)
SumBilling(T) ==
    IF T = <<>> THEN 0
    ELSE (IF T[1].BillingAmount.nan THEN 0 ELSE T[1].BillingAmount.v)
         + SumBilling(Tail(T))

Present(T) == {i \in 1..Len(T) : ~T[i].BillingAmount.nan}

\* Variant: a missing amount counts as a row of amount zero.
Mean_nan_as_zero(T) ==
    IF T = <<>> THEN [nan |-> TRUE, num |-> 0, den |-> 1]
    ELSE [nan |-> FALSE, num |-> SumBilling(T), den |-> Len(T)]

\* df['Billing Amount'].mean(): NaN is skipped; NaN when nothing is left.
Mean(T) ==
    IF Present(T) = {} THEN [nan |-> TRUE, num |-> 0, den |-> 1]
    ELSE [nan |-> FALSE, num |-> SumBilling(T), den |-> Cardinality(Present(T))]

\* df['Billing Amount'].min() / .max(): NaN is skipped; NaN when nothing is left.
BillingMin(T) ==
    IF Present(T) = {} THEN NaN
    ELSE Num(CHOOSE m \in {T[i].BillingAmount.v : i \in Present(T)} :
                 \A i \in Present(T) : m <= T[i].BillingAmount.v)

BillingMax(T) ==
    IF Present(T) = {} THEN NaN
    ELSE Num(CHOOSE m \in {T[i].BillingAmount.v : i \in Present(T)} :
                 \A i \in Present(T) : m >= T[i].BillingAmount.v)

RECURSIVE GroupThousands(_)
\* the ',' option of the format spec on the integer part
GroupThousands(n) ==
    IF n < 1000 THEN DecimalDigits(n)
    ELSE GroupThousands(n \div 1000) \o <<44>>
         \o <<48 + ((n \div 100) % 10)>> \o TwoDigits(n % 100)

\* f"${x:,.2f}": NaN formats as "nan"; a number is rounded to cents.
FormatMoney(x) ==
    IF x.nan THEN <<36, 110, 97, 110>>
    ELSE LET cents == (200 * x.num + x.den) \div (2 * x.den)
         IN  <<36>> \o GroupThousands(cents \div 100) \o <<46>>
             \o TwoDigits(cents % 100)

\* ------------------------------------------------------------ input files

Row(age, g, c, ins, bill, date) ==
    [Age |-> age, Gender |-> g, MedicalCondition |-> c, InsuranceProvider |-> ins,
     BillingAmount |-> bill, DateOfAdmission |-> date]

\* The rows an input file is made of: a December admission listed before an
\* April one, a billing amount that is text, a row with neither billing
\* amount nor date, and a date that is text.
RowPool ==
    { Row(30, "Male", "Flu", "Aetna", Txt100, Txt20231201),
      Row(45, "Female", "Asthma", "Cigna", TxtBad, Txt20230415),
      Row(60, "Female", "Flu", "Aetna", Txt300, Txt20240120),
      Row(52, "Male", "Asthma", "Cigna", TxtEmpty, TxtEmpty),
      Row(30, "Male", "Flu", "Cigna", Txt100, TxtUnknown) }

Tables == UNION {[1..n -> RowPool] : n \in 0..MaxRows}

\* assets/healthcare.csv: absent, not a CSV file, or a header and rows.
Files ==
    {[exists |-> FALSE, parsable |-> FALSE, rows |-> <<>>],
     [exists |-> TRUE, parsable |-> FALSE, rows |-> <<>>]}
    \cup {[exists |-> TRUE, parsable |-> TRUE, rows |-> t] : t \in Tables}

\* ---------------------------------------------------------------- views

Views ==
    {"age-distribution", "condition-distribution", "admission-trends",
     "billing-distribution", "insurance-comparison"}

\* Variant: the billing callback does not list the slider among its inputs.
CallbackInputs_no_slider(view) ==
    CASE view = "age-distribution" -> {"gender-filter"}
      [] view = "condition-distribution" -> {"gender-filter"}
      [] view = "admission-trends" -> {"chart-type", "condition-filter"}
      [] view = "billing-distribution" -> {"gender-filter"}
      [] view = "insurance-comparison" -> {"gender-filter"}

\* The Input(...) components of each @app.callback decorator.
CallbackInputs(view) ==
    CASE view = "age-distribution" -> {"gender-filter"}
      [] view = "condition-distribution" -> {"gender-filter"}
      [] view = "admission-trends" -> {"chart-type", "condition-filter"}
      [] view = "billing-distribution" -> {"gender-filter", "billing-slider"}
      [] view = "insurance-comparison" -> {"gender-filter"}

\* The callbacks Dash runs when the property of one component changes.
Triggered(signal) == {v \in Views : signal \in CallbackInputs(v)}

\* Variant: no test of the selection, so a cleared dropdown matches no row.
FilterBy_always_compare(T, col, selected) ==
    SelectSeq(T, LAMBDA r : r[col] = selected)

\* df[df[col] == selected] if selected else df
FilterBy(T, col, selected) ==
    IF Truthy(selected) THEN SelectSeq(T, LAMBDA r : r[col] = selected) ELSE T

\* return {}
EmptyFigure == [kind |-> "empty", x |-> "", data |-> <<>>]

\* no figure yet: the page has not been loaded
NoFigure == [kind |-> "none", x |-> "", data |-> <<>>]

update_age_distribution(T, selected_gender) ==
    LET filtered_df == FilterBy(T, "Gender", selected_gender)
    IN  IF filtered_df = <<>> THEN EmptyFigure
        ELSE [kind |-> "histogram", x |-> "Age", data |-> filtered_df]

update_condition_distribution(T, selected_gender) ==
    LET filtered_df == FilterBy(T, "Gender", selected_gender)
    IN  [kind |-> "pie", x |-> "Medical Condition", data |-> filtered_df]

PeriodLt(a, b) == a.year < b.year \/ (a.year = b.year /\ a.month < b.month)

RECURSIVE SortPeriods(_)
SortPeriods(S) ==
    IF S = {} THEN <<>>
    ELSE LET m == CHOOSE x \in S : \A y \in S : ~PeriodLt(y, x)
         IN  <<m>> \o SortPeriods(S \ {m})

\* frame.groupby('YearMonth').size().reset_index(name='Count'): one row per
\* key, keys sorted (sort=True), rows whose key is NaT dropped (dropna=True).
GroupBySize(frame) ==
    LET keys == SortPeriods({frame[i].YearMonth : i \in 1..Len(frame)} \ {PeriodNaT})
    IN  [k \in 1..Len(keys) |->
            [YearMonth |-> keys[k],
             Count |-> Cardinality({i \in 1..Len(frame) : frame[i].YearMonth = keys[k]})]]

\* str(period) of a monthly period: "YYYY-MM", and "NaT"
PeriodStr(p) ==
    IF p.nat THEN <<78, 97, 84>>
    ELSE <<48 + ((p.year \div 1000) % 10), 48 + ((p.year \div 100) % 10),
           48 + ((p.year \div 10) % 10), 48 + (p.year % 10), 45>>
         \o TwoDigits(p.month)

\* frame['YearMonth'] = frame['YearMonth'].astype(str)
YearMonthAsStr(frame) ==
    [i \in 1..Len(frame) |-> [frame[i] EXCEPT !.YearMonth = [str |-> PeriodStr(@)]]]

\* Variant: the two branches exchanged.
TrendChartKind_swapped(chart_type) == IF chart_type = "line" THEN "bar" ELSE "line"

TrendChartKind(chart_type) == IF chart_type = "line" THEN "line" ELSE "bar"

update_admission_trends(T, chart_type, selected_condition) ==
    LET filtered_df == FilterBy(T, "MedicalCondition", selected_condition)
        trend_df == YearMonthAsStr(GroupBySize(filtered_df))
    IN  [kind |-> TrendChartKind(chart_type), x |-> "YearMonth", data |-> trend_df]

\* Variant: the column is converted on filtered_df before grouping, and
\* filtered_df is df itself when no condition is selected.
df_after_admission_trends_in_place(T, selected_condition) ==
    IF Truthy(selected_condition) THEN T ELSE YearMonthAsStr(T)

\* The module-level df once update_admission_trends has returned: line 169
\* assigns the converted column into trend_df, the frame reset_index built.
df_after_admission_trends(T, selected_condition) == T

update_billing_distribution(T, selected_gender, slider_value) ==
    LET by_gender == FilterBy(T, "Gender", selected_gender)
        filtered_df == SelectSeq(by_gender, LAMBDA r : Le(r.BillingAmount, slider_value))
    IN  [kind |-> "histogram", x |-> "Billing Amount", data |-> filtered_df]

update_insurance_comparison(T, selected_gender) ==
    LET filtered_df == FilterBy(T, "Gender", selected_gender)
    IN  [kind |-> "bar", x |-> "Insurance Provider", data |-> filtered_df]

\* The figure a view's callback returns for the given values of the signals.
Evaluate(view, T, g, c, ct, s) ==
    CASE view = "age-distribution" -> update_age_distribution(T, g)
      [] view = "condition-distribution" -> update_condition_distribution(T, g)
      [] view = "admission-trends" -> update_admission_trends(T, ct, c)
      [] view = "billing-distribution" -> update_billing_distribution(T, g, s)
      [] view = "insurance-comparison" -> update_insurance_comparison(T, g)

\* ---------------------------------------------------------------- state

VARIABLES
    file,          \* assets/healthcare.csv
    pc,            \* where the module's top-level code stands
    error,         \* the exception that ended the process, or "none"
    df,            \* the module-level table
    num_records,   \* len(df)
    avg_billing,   \* df['Billing Amount'].mean()
    layout,        \* app.layout: the summary texts and the controls' properties
    gender,        \* value of gender-filter
    condition,     \* value of condition-filter
    chart_type,    \* value of chart-type
    slider,        \* value of billing-slider
    figure,        \* the figure property of each dcc.Graph
    lastSignal,    \* the component whose change was served last ("load": a page load)
    lastRun        \* the callbacks that ran to serve it

vars ==
    <<file, pc, error, df, num_records, avg_billing, layout, gender, condition,
      chart_type, slider, figure, lastSignal, lastRun>>

signals == <<gender, condition, chart_type, slider>>

NoLayout ==
    [built |-> FALSE, records_text |-> <<>>, billing_text |-> <<>>,
     gender_options |-> {}, condition_options |-> {},
     slider_min |-> 0, slider_max |-> 0, slider_value |-> 0,
     chart_type_value |-> ""]

Init ==
    /\ file \in Files
    /\ pc = "start"
    /\ error = "none"
    /\ df = <<>>
    /\ num_records = 0
    /\ avg_billing = [nan |-> TRUE, num |-> 0, den |-> 1]
    /\ layout = NoLayout
    /\ gender = None
    /\ condition = None
    /\ chart_type = ""
    /\ slider = 0
    /\ figure = [v \in Views |-> NoFigure]
    /\ lastSignal = "none"
    /\ lastRun = {}

\* df = load_data(): an exception ends the process
LoadData ==
    /\ pc = "start"
    /\ LET outcome == load_data(file)
       IN  IF outcome.error # "none"
           THEN /\ pc' = "crashed"
                /\ error' = outcome.error
                /\ df' = df
           ELSE /\ pc' = "loaded"
                /\ error' = error
                /\ df' = outcome.df
    /\ UNCHANGED <<file, num_records, avg_billing, layout, signals, figure,
                   lastSignal, lastRun>>

\* num_records = len(df); avg_billing = df['Billing Amount'].mean()
Summarise ==
    /\ pc = "loaded"
    /\ num_records' = Len(df)
    /\ avg_billing' = Mean(df)
    /\ pc' = "summarised"
    /\ UNCHANGED <<file, error, df, layout, signals, figure, lastSignal, lastRun>>

\* The slider's marks: int(value) of each quantile of Billing Amount raises
\* ValueError on NaN, and every quantile of a column with no number is NaN.
MarksRaise(T) == Present(T) = {}

\* The layout the expression of lines 26-116 builds (the marks' labels and
\* the static text are left out).
Layout(T, n, avg) ==
    [built |-> TRUE,
     records_text |-> DecimalDigits(n),
     billing_text |-> FormatMoney(avg),
     gender_options |-> {T[i].Gender : i \in 1..Len(T)},
     condition_options |-> {T[i].MedicalCondition : i \in 1..Len(T)},
     slider_min |-> BillingMin(T).v,
     slider_max |-> BillingMax(T).v,
     slider_value |-> BillingMax(T).v,
     chart_type_value |-> "line"]

\* app.layout = dbc.Container([...])
BuildLayout ==
    /\ pc = "summarised"
    /\ IF MarksRaise(df)
       THEN /\ pc' = "crashed"
            /\ error' = "ValueError: cannot convert float NaN to integer"
            /\ layout' = layout
       ELSE /\ pc' = "layout"
            /\ error' = error
            /\ layout' = Layout(df, num_records, avg_billing)
    /\ UNCHANGED <<file, df, num_records, avg_billing, signals, figure,
                   lastSignal, lastRun>>

\* app.run_server(debug=True)
RunServer ==
    /\ pc = "layout"
    /\ pc' = "serving"
    /\ UNCHANGED <<file, error, df, num_records, avg_billing, layout, signals,
                   figure, lastSignal, lastRun>>

\* One request served: the callbacks in `run` are called with the current
\* values of their inputs and their results become the graphs' figures.
Serve(signal, run, g, c, ct, s) ==
    /\ gender' = g
    /\ condition' = c
    /\ chart_type' = ct
    /\ slider' = s
    /\ figure' = [v \in Views |->
                    IF v \in run THEN Evaluate(v, df, g, c, ct, s) ELSE figure[v]]
    /\ df' = IF "admission-trends" \in run
             THEN df_after_admission_trends(df, c) ELSE df
    /\ lastSignal' = signal
    /\ lastRun' = run
    /\ UNCHANGED <<file, pc, error, num_records, avg_billing, layout>>

\* A browser loads the page: the controls hold the layout's values and Dash
\* calls every callback once.
PageLoad ==
    /\ pc = "serving"
    /\ Serve("load", Views, None, None, layout.chart_type_value, layout.slider_value)

Rendered == pc = "serving" /\ lastSignal # "none"

\* The user picks a gender, or clears the dropdown.
ChangeGender ==
    /\ Rendered
    /\ \E g \in (layout.gender_options \cup {None}) \ {gender} :
          Serve("gender-filter", Triggered("gender-filter"),
                g, condition, chart_type, slider)

\* The user picks a medical condition, or clears the dropdown.
ChangeCondition ==
    /\ Rendered
    /\ \E c \in (layout.condition_options \cup {None}) \ {condition} :
          Serve("condition-filter", Triggered("condition-filter"),
                gender, c, chart_type, slider)

\* The user picks the other radio item.
ChangeChartType ==
    /\ Rendered
    /\ \E ct \in {"line", "bar"} \ {chart_type} :
          Serve("chart-type", Triggered("chart-type"),
                gender, condition, ct, slider)

SliderStep == 100

\* The positions of the slider: min, min + step, ... up to max.
SliderPositions ==
    {layout.slider_min + k * SliderStep :
        k \in 0..((layout.slider_max - layout.slider_min) \div SliderStep)}

\* The user drags the slider.
ChangeSlider ==
    /\ Rendered
    /\ \E s \in SliderPositions \ {slider} :
          Serve("billing-slider", Triggered("billing-slider"),
                gender, condition, chart_type, s)

Next ==
    \/ LoadData
    \/ Summarise
    \/ BuildLayout
    \/ RunServer
    \/ PageLoad
    \/ ChangeGender
    \/ ChangeCondition
    \/ ChangeChartType
    \/ ChangeSlider

Spec == Init /\ [][Next]_vars

\* ------------------------------------------------------------ properties

LoadErrors == {"FileNotFoundError", "ParserError", "ValueError: time data"}

\* load_data has returned a table (the process may have ended later).
Loaded == pc # "start" /\ error \notin LoadErrors

\* lines 19-20 have run.
Summarised == Loaded /\ pc # "loaded"

AdmissionTrends == figure["admission-trends"]
BillingDistribution == figure["billing-distribution"]

\* The rows of df of the selected gender / condition; all rows when none is selected.
GenderRows ==
    IF gender = None THEN df ELSE SelectSeq(df, LAMBDA r : r.Gender = gender)

ConditionRows ==
    IF condition = None THEN df
    ELSE SelectSeq(df, LAMBDA r : r.MedicalCondition = condition)

HasAmount(r) == ~r.BillingAmount.nan

\* C1: in every view the row filter keeps exactly the rows of the selected
\* gender (condition, for admission trends) when one is selected, and every
\* row of the table when none is: the figures are built from those rows, and
\* with no condition selected the trend is the trend of the full table.
C1_FilterIsSelectionOrIdentity ==
    Rendered =>
        /\ \A v \in {"age-distribution", "condition-distribution",
                     "insurance-comparison"} : figure[v].data = GenderRows
        /\ \A i \in 1..Len(BillingDistribution.data) :
              gender # None => BillingDistribution.data[i].Gender = gender
        /\ Len(BillingDistribution.data)
              = Cardinality({i \in 1..Len(GenderRows) :
                                /\ HasAmount(GenderRows[i])
                                /\ GenderRows[i].BillingAmount.v <= slider})
        /\ AdmissionTrends.data = YearMonthAsStr(GroupBySize(ConditionRows))
        /\ gender = None => figure["condition-distribution"].data = df /\ df # <<>>
        /\ condition = None => AdmissionTrends.data = YearMonthAsStr(GroupBySize(df))

\* A gender is selected in a table that holds both genders, no condition is.
C1_Witness ==
    /\ Rendered
    /\ gender = "Female"
    /\ condition = None
    /\ \E i, j \in 1..Len(df) : df[i].Gender = "Female" /\ df[j].Gender = "Male"
    /\ Len(figure["insurance-comparison"].data) < Len(df)

\* The calendar month a "YYYY-MM" label names, as months since year 0.
LabelMonth(label) ==
    12 * DecimalValue(SubSeq(label, 1, 4)) + DecimalValue(SubSeq(label, 6, 7))

RECURSIVE SumCounts(_)
SumCounts(B) == IF B = <<>> THEN 0 ELSE B[1].Count + SumCounts(Tail(B))

Dated(T) == {i \in 1..Len(T) : ~T[i].YearMonth.nat}

\* The buckets are the months of the dated rows, each with its number of
\* rows, in chronological order.
BucketsOfDatedRows(B, F) ==
    /\ {B[k].YearMonth.str : k \in 1..Len(B)}
          = {PeriodStr(F[i].YearMonth) : i \in Dated(F)}
    /\ \A k \in 1..Len(B) :
          B[k].Count = Cardinality({i \in Dated(F) :
                                      PeriodStr(F[i].YearMonth) = B[k].YearMonth.str})
    /\ \A j, k \in 1..Len(B) :
          j < k => LabelMonth(B[j].YearMonth.str) < LabelMonth(B[k].YearMonth.str)

\* C2: admission trends holds one bucket per month that occurs in the
\* filtered rows and none for another month, each bucket counts the filtered
\* rows of its month, the counts add up to the number of filtered rows, and
\* the buckets are in chronological order.
C2_BucketsCountEveryFilteredRow ==
    Rendered =>
        /\ BucketsOfDatedRows(AdmissionTrends.data, ConditionRows)
        /\ SumCounts(AdmissionTrends.data) = Len(ConditionRows)

\* What holds of the buckets: the same, with the counts adding up to the
\* number of filtered rows that have a date of admission.
C2_BucketsCountDatedRows ==
    Rendered =>
        /\ BucketsOfDatedRows(AdmissionTrends.data, ConditionRows)
        /\ SumCounts(AdmissionTrends.data) = Cardinality(Dated(ConditionRows))

\* C3: the billing histogram is built from exactly the rows that pass the
\* gender filter and hold an amount not above the slider value; no row
\* without an amount is in it; with no gender selected and the slider at its
\* initial value, the table's maximum, it is built from exactly the rows
\* that hold an amount.
C3_BillingRowsUnderCeiling ==
    Rendered =>
        /\ BillingDistribution.data
              = SelectSeq(df, LAMBDA r : /\ gender # None => r.Gender = gender
                                         /\ HasAmount(r)
                                         /\ r.BillingAmount.v <= slider)
        /\ \A i \in 1..Len(BillingDistribution.data) :
              HasAmount(BillingDistribution.data[i])
        /\ layout.slider_value = BillingMax(df).v
        /\ (gender = None /\ slider = layout.slider_value)
              => BillingDistribution.data = SelectSeq(df, HasAmount)

\* A gender is selected that has a row without an amount, the slider is
\* below its maximum, and rows remain.
C3_Witness ==
    /\ Rendered
    /\ gender # None
    /\ slider < layout.slider_max
    /\ \E i \in 1..Len(df) : df[i].Gender = gender /\ ~HasAmount(df[i])
    /\ \E i \in 1..Len(df) : HasAmount(df[i]) /\ df[i].BillingAmount.v > slider
    /\ BillingDistribution.data # <<>>

\* The rows a view's figure is built from are none.
NoRowsLeft(v) ==
    CASE v = "admission-trends" -> ConditionRows = <<>>
      [] v = "billing-distribution" ->
            \A i \in 1..Len(GenderRows) :
                ~(HasAmount(GenderRows[i]) /\ GenderRows[i].BillingAmount.v <= slider)
      [] OTHER -> GenderRows = <<>>

\* C4: whenever no row is left after a view's filter, the view's figure is
\* the explicit "no data" figure (the one update_age_distribution returns).
C4_NoDataFigureWhenNoRows ==
    Rendered => \A v \in Views : NoRowsLeft(v) => figure[v] = EmptyFigure

RECURSIVE RawAmountSum(_)
\* The sum of the amounts written as numbers in the file's rows.
RawAmountSum(rows) ==
    IF rows = <<>> THEN 0
    ELSE (IF rows[1].BillingAmount # <<>> /\ AllDigits(rows[1].BillingAmount)
          THEN DecimalValue(rows[1].BillingAmount) ELSE 0)
         + RawAmountSum(Tail(rows))

RawAmounts(rows) ==
    {i \in 1..Len(rows) :
        rows[i].BillingAmount # <<>> /\ AllDigits(rows[i].BillingAmount)}

\* [{Gender M, Billing 100}, {Gender F, Billing "bad"}]
ExampleRows ==
    << Row(30, "Male", "Flu", "Aetna", Txt100, Txt20231201),
       Row(45, "Female", "Asthma", "Cigna", TxtBad, Txt20230415) >>

\* C5: the record count is the number of rows of the file, rows without a
\* usable amount included, and the average is the sum of the amounts that
\* are numbers divided by how many there are; both are shown as computed.
\* For the example table the count is 2 and the average 100 ("$100.00").
C5_CountAllRowsAverageOverAmounts ==
    /\ Summarised =>
          /\ num_records = Len(file.rows)
          /\ avg_billing.nan <=> RawAmounts(file.rows) = {}
          /\ ~avg_billing.nan =>
                /\ avg_billing.num = RawAmountSum(file.rows)
                /\ avg_billing.den = Cardinality(RawAmounts(file.rows))
          /\ file.rows = ExampleRows =>
                num_records = 2 /\ avg_billing.num = 100 * avg_billing.den
    /\ layout.built =>
          /\ layout.records_text = DecimalDigits(Len(file.rows))
          /\ layout.billing_text = FormatMoney(avg_billing)
          /\ file.rows = ExampleRows =>
                /\ layout.records_text = <<50>>
                /\ layout.billing_text = <<36, 49, 48, 48, 46, 48, 48>>

\* The example table is being served.
C5_Witness == pc = "serving" /\ file.rows = ExampleRows /\ layout.built

\* "N/A"
TxtNA == <<78, 47, 65>>

\* C6: when the average is undefined the process does not end with an
\* exception while building the summary display, and the display shows
\* "N/A" for the average.
C6_UndefinedAverageShownAsNA ==
    (Summarised /\ avg_billing.nan) =>
        /\ pc # "crashed"
        /\ pc \in {"layout", "serving"} => layout.billing_text = TxtNA

\* The views each signal is declared to re-evaluate.
Subscribers(signal) ==
    CASE signal = "gender-filter" ->
            {"age-distribution", "condition-distribution",
             "billing-distribution", "insurance-comparison"}
      [] signal = "billing-slider" -> {"billing-distribution"}
      [] signal = "chart-type" -> {"admission-trends"}
      [] signal = "condition-filter" -> {"admission-trends"}
      [] signal = "load" -> Views

\* C7: the callbacks run for a change of one signal are exactly the views
\* subscribed to it, and after every interaction each figure is its view
\* function applied to the current values of the signals.
C7_ExactlySubscribersRunNoneStale ==
    Rendered =>
        /\ lastRun = Subscribers(lastSignal)
        /\ \A v \in Views :
              figure[v] = Evaluate(v, df, gender, condition, chart_type, slider)

\* The slider was moved after a gender and a condition had been selected.
C7_Witness ==
    /\ Rendered
    /\ lastSignal = "billing-slider"
    /\ slider # layout.slider_value
    /\ gender # None
    /\ condition # None
    /\ chart_type = "bar"

\* C8: from the return of load_data on, whatever callbacks run, df is the
\* table load_data returned: same rows, same columns, same cells, YearMonth
\* still a period.
C8_TableUnchangedAfterLoad ==
    Loaded =>
        /\ df = load_data(file).df
        /\ \A i \in 1..Len(df) : df[i].YearMonth = to_period(df[i].DateOfAdmission)

\* Admission trends has just run on the whole table, after the other views
\* ran with a gender selected and the slider moved.
C8_Witness ==
    /\ Rendered
    /\ lastSignal = "chart-type"
    /\ condition = None
    /\ gender # None
    /\ slider # layout.slider_value
    /\ Len(df) > 1

\* The file is absent, is not a CSV file, or holds a date of admission that
\* is text other than a date.
LoadMustFail ==
    \/ ~file.exists
    \/ ~file.parsable
    \/ \E i \in 1..Len(file.rows) :
          /\ file.rows[i].DateOfAdmission # <<>>
          /\ ~IsIsoDate(file.rows[i].DateOfAdmission)

C10_ChartKindFollowsChartType ==
    /\ layout.built => layout.chart_type_value = "line"
    /\ Rendered =>
          /\ chart_type \in {"line", "bar"}
          /\ AdmissionTrends.kind = chart_type
          /\ lastSignal = "load" => AdmissionTrends.kind = "line"
          /\ AdmissionTrends.data
                = update_admission_trends(df, "line", condition).data
          /\ AdmissionTrends.data
                = update_admission_trends(df, "bar", condition).data

\* A bar chart of one condition's admissions, in a table with two conditions.
C10_Witness ==
    /\ Rendered
    /\ chart_type = "bar"
    /\ AdmissionTrends.kind = "bar"
    /\ condition # None
    /\ Len(ConditionRows) < Len(df)

====
